---- MODULE Spec2Model ----
(***************************************************************************)
(* Model of src/src/main.rs: main() collects the process arguments, takes  *)
(* the first user argument as a path, canonicalizes it, and hands it to    *)
(* goblin_runner, which reads the whole file and prints its bytes.         *)
(*                                                                         *)
(* Strings and paths are sequences of tokens: <<"/","d","f">> is "/d/f",   *)
(* <<".","f">> is "./f", <<>> is "".  A printed line is a sequence of      *)
(* tokens as well.  The filesystem is a function from the absolute paths   *)
(* in Nodes to entries; the root <<"/">> is always a directory.            *)
(***************************************************************************)
EXTENDS Integers, Sequences, FiniteSets, TLC

VARIABLES args, fs, fs0, fsAtRead, pc, file, absolute_path, canonErr,
          file_data, result, readErr, stdout, stderr, exitCode, fsOps,
          envSteps

vars == <<args, fs, fs0, fsAtRead, pc, file, absolute_path, canonErr,
          file_data, result, readErr, stdout, stderr, exitCode, fsOps,
          envSteps>>

----------------------------------------------------------------------------
(* Bounds *)

MaxLen == 2
MaxEnvSteps == 1
MaxSymlinkHops == 4

(* Platform constants *)

UsizeBits == 64
PanicExit == 101
NoExit == -1

----------------------------------------------------------------------------
(* Filesystem *)

Root == <<"/">>
Cwd == <<"/", "d">>
D == <<"/", "d">>
F == <<"/", "d", "f">>
L == <<"/", "d", "l">>
K == <<"/", "d", "k">>
Nodes == {D, F, L, K}

Bytes == {0, 65, 255}

RECURSIVE SeqsUpTo(_)
SeqsUpTo(n) ==
    IF n = 0 THEN {<<>>}
    ELSE LET S == SeqsUpTo(n - 1)
         IN S \cup {Append(s, b) : s \in {t \in S : Len(t) = n - 1}, b \in Bytes}

Datas == SeqsUpTo(MaxLen)

None == [kind |-> "none", data |-> <<>>, readable |-> FALSE, target |-> <<>>]
Dir == [kind |-> "dir", data |-> <<>>, readable |-> TRUE, target |-> <<>>]
File(d, r) == [kind |-> "file", data |-> d, readable |-> r, target |-> <<>>]
Link(t) == [kind |-> "link", data |-> <<>>, readable |-> TRUE, target |-> t]

Entry(f, p) == IF p = Root THEN Dir ELSE IF p \in DOMAIN f THEN f[p] ELSE None

Kind(f, p) == Entry(f, p).kind

Parent(p) == IF Len(p) <= 1 THEN Root ELSE SubSeq(p, 1, Len(p) - 1)

Ok(p) == [ok |-> TRUE, path |-> p, err |-> ""]
Err(e) == [ok |-> FALSE, path |-> <<>>, err |-> e]

(* Component walk of realpath: "." is skipped, ".." pops, a symlink is     *)
(* replaced by its target, a missing component is NotFound.                *)
RECURSIVE Resolve(_, _, _, _)
Resolve(f, cur, rest, hops) ==
    IF rest = <<>> THEN Ok(cur)
    ELSE LET c == Head(rest)
             r == Tail(rest)
         IN IF Kind(f, cur) # "dir" THEN Err("NotADirectory")
            ELSE IF c = "." THEN Resolve(f, cur, r, hops)
            ELSE IF c = ".." THEN Resolve(f, Parent(cur), r, hops)
            ELSE LET n == Append(cur, c)
                     e == Entry(f, n)
                 IN IF e.kind = "none" THEN Err("NotFound")
                    ELSE IF e.kind = "link"
                    THEN IF hops >= MaxSymlinkHops THEN Err("FilesystemLoop")
                         ELSE IF e.target # <<>> /\ Head(e.target) = "/"
                              THEN Resolve(f, Root, Tail(e.target) \o r, hops + 1)
                              ELSE Resolve(f, cur, e.target \o r, hops + 1)
                    ELSE Resolve(f, n, r, hops)

RECURSIVE LexResolve(_, _)
LexResolve(cur, rest) ==
    IF rest = <<>> THEN Ok(cur)
    ELSE IF Head(rest) = "." THEN LexResolve(cur, Tail(rest))
    ELSE IF Head(rest) = ".." THEN LexResolve(Parent(cur), Tail(rest))
    ELSE LexResolve(Append(cur, Head(rest)), Tail(rest))

(* Mutants of Canonicalize: no existence check / no symlink resolution.    *)
CanonicalizeLexical(f, s) ==
    IF s # <<>> /\ Head(s) = "/" THEN LexResolve(Root, Tail(s)) ELSE LexResolve(Cwd, s)

CanonicalizeKeepLinks(f, s) ==
    LET r == IF s = <<>> THEN Err("NotFound")
             ELSE IF Head(s) = "/" THEN Resolve(f, Root, Tail(s), 0)
             ELSE Resolve(f, Cwd, s, 0)
    IN IF r.ok THEN CanonicalizeLexical(f, s) ELSE r

(* Path::canonicalize *)
Canonicalize(f, s) ==
    IF s = <<>> THEN Err("NotFound")
    ELSE IF Head(s) = "/" THEN Resolve(f, Root, Tail(s), 0)
    ELSE Resolve(f, Cwd, s, 0)

ReadOk(d) == [ok |-> TRUE, data |-> d, err |-> ""]
ReadErr(e) == [ok |-> FALSE, data |-> <<>>, err |-> e]

(* Mutant of FsRead: a partial read that loses the last byte.              *)
FsReadPartial(f, p) ==
    LET r == Canonicalize(f, p)
    IN IF ~r.ok THEN ReadErr(r.err)
       ELSE LET e == Entry(f, r.path)
            IN IF e.kind = "dir" THEN ReadErr("IsADirectory")
               ELSE IF ~e.readable THEN ReadErr("PermissionDenied")
               ELSE ReadOk(IF e.data = <<>> THEN <<>>
                           ELSE SubSeq(e.data, 1, Len(e.data) - 1))

(* fs::read: open (following symlinks) and read to the end.                *)
FsRead(f, p) ==
    LET r == Canonicalize(f, p)
    IN IF ~r.ok THEN ReadErr(r.err)
       ELSE LET e == Entry(f, r.path)
            IN IF e.kind = "dir" THEN ReadErr("IsADirectory")
               ELSE IF ~e.readable THEN ReadErr("PermissionDenied")
               ELSE ReadOk(e.data)

----------------------------------------------------------------------------
(* Formatting *)

Quote == "\""

DebugPath(p) == <<Quote>> \o p \o <<Quote>>

(* Mutant of AbsLine: the label is dropped.                                *)
AbsLineBare(p) == DebugPath(p)

AbsLine(p) == <<"Absolute path: ">> \o DebugPath(p)

RECURSIVE DebugElems(_)
DebugElems(d) ==
    IF d = <<>> THEN <<>>
    ELSE IF Len(d) = 1 THEN <<ToString(d[1])>>
    ELSE <<ToString(d[1]), ", ">> \o DebugElems(Tail(d))

DebugVec(d) == <<"[">> \o DebugElems(d) \o <<"]">>

ByteOf(tok) == CHOOSE b \in 0..255 : ToString(b) = tok

ParseDebugVec(line) ==
    [i \in 1..((Len(line) - 1) \div 2) |-> ByteOf(line[2 * i])]

NoArgsMsg == <<"No command-line arguments provided (except the executable path).">>

----------------------------------------------------------------------------
(* Machine words: little-endian bit sequences of UsizeBits bits.           *)

RECURSIVE BitsOf(_, _)
BitsOf(n, k) == IF k = 0 THEN <<>> ELSE <<n % 2>> \o BitsOf(n \div 2, k - 1)

WordNot(w) == [i \in 1..Len(w) |-> 1 - w[i]]

WordGt(a, b) ==
    \E i \in 1..Len(a) :
        /\ a[i] = 1
        /\ b[i] = 0
        /\ \A j \in (i + 1)..Len(a) : a[j] = b[j]

(* `!args.len() > 1`: unary ! binds tighter than >, and on usize it is the *)
(* bitwise complement.                                                     *)
NoArgsGuard(n) == WordGt(WordNot(BitsOf(n, UsizeBits)), BitsOf(1, UsizeBits))

(* Mutant of UserArgs: nothing is skipped.                                 *)
UserArgsNoSkip(a) == a

(* args.iter().skip(1).collect() *)
UserArgs(a) == IF Len(a) = 0 THEN <<>> ELSE Tail(a)

----------------------------------------------------------------------------
(* Initial states *)

Prog == <<"/", "bin", "arvora_nix">>

ArgPaths == { <<>>, F, <<".", "f">>, <<"..", "d", "f">>, <<"l">>, K, D,
              <<"/", "d", "x">>, <<"f", "x">> }

ArgLists == { <<>>, <<Prog>> } \cup { <<Prog, a>> : a \in ArgPaths }
            \cup { <<Prog, a, <<"extra">> >> : a \in {F, <<"/", "d", "x">>} }

FEntries == {None, Dir} \cup { File(d, r) : d \in Datas, r \in BOOLEAN }
LEntries == {None, Link(<<"f">>), Link(K), Link(<<"l">>)}
KEntries == {None, Link(<<"l">>), Link(<<".", "f">>), File(<<65>>, TRUE)}

EnvEntries == {None, Dir, File(<<255>>, TRUE), File(<<0>>, FALSE), Link(K)}

Init ==
    /\ args \in ArgLists
    /\ \E ef \in FEntries, el \in LEntries, ek \in KEntries :
         fs = [n \in Nodes |-> IF n = D THEN Dir ELSE IF n = F THEN ef
                               ELSE IF n = L THEN el ELSE ek]
    /\ fs0 = fs
    /\ fsAtRead = fs
    /\ pc = "check"
    /\ file = <<>>
    /\ absolute_path = <<>>
    /\ canonErr = ""
    /\ file_data = <<>>
    /\ result = "none"
    /\ readErr = ""
    /\ stdout = <<>>
    /\ stderr = <<>>
    /\ exitCode = NoExit
    /\ fsOps = <<>>
    /\ envSteps = 0

----------------------------------------------------------------------------
(* main, lines 14-17 *)
CheckArgs ==
    /\ pc = "check"
    /\ stdout' = IF NoArgsGuard(Len(args)) THEN Append(stdout, NoArgsMsg) ELSE stdout
    /\ pc' = "index"
    /\ UNCHANGED <<args, fs, fs0, fsAtRead, file, absolute_path, canonErr,
                   file_data, result, readErr, stderr, exitCode, fsOps, envSteps>>

(* main, lines 19-22: user_args[0] panics on an empty user_args *)
IndexArg ==
    /\ pc = "index"
    /\ IF Len(UserArgs(args)) = 0
       THEN /\ pc' = "panicked"
            /\ exitCode' = PanicExit
            /\ stderr' = Append(stderr, <<"panic: ", "index out of bounds">>)
            /\ file' = file
       ELSE /\ pc' = "printPath"
            /\ file' = UserArgs(args)[1]
            /\ UNCHANGED <<exitCode, stderr>>
    /\ UNCHANGED <<args, fs, fs0, fsAtRead, absolute_path, canonErr, file_data,
                   result, readErr, stdout, fsOps, envSteps>>

(* main, lines 24-25 *)
PrintPath ==
    /\ pc = "printPath"
    /\ stdout' = Append(stdout, DebugPath(file))
    /\ pc' = "canon"
    /\ UNCHANGED <<args, fs, fs0, fsAtRead, file, absolute_path, canonErr,
                   file_data, result, readErr, stderr, exitCode, fsOps, envSteps>>

(* main, line 27: canonicalize().unwrap() panics on Err *)
CanonicalizeStep ==
    /\ pc = "canon"
    /\ fsOps' = Append(fsOps, "canonicalize")
    /\ LET r == Canonicalize(fs, file)
       IN IF r.ok
          THEN /\ absolute_path' = r.path
               /\ pc' = "printAbs"
               /\ UNCHANGED <<canonErr, exitCode, stderr>>
          ELSE /\ canonErr' = r.err
               /\ pc' = "panicked"
               /\ exitCode' = PanicExit
               /\ stderr' = Append(stderr, <<"panic: ", "called Result::unwrap on an Err value: ", r.err>>)
               /\ UNCHANGED absolute_path
    /\ UNCHANGED <<args, fs, fs0, fsAtRead, file, file_data, result, readErr,
                   stdout, envSteps>>

(* main, line 28 *)
PrintAbs ==
    /\ pc = "printAbs"
    /\ stdout' = Append(stdout, AbsLine(absolute_path))
    /\ pc' = "read"
    /\ UNCHANGED <<args, fs, fs0, fsAtRead, file, absolute_path, canonErr,
                   file_data, result, readErr, stderr, exitCode, fsOps, envSteps>>

(* goblin_runner, line 7: fs::read(file_path)? returns early on Err *)
GoblinRead ==
    /\ pc = "read"
    /\ fsOps' = Append(fsOps, "read")
    /\ fsAtRead' = fs
    /\ LET r == FsRead(fs, absolute_path)
       IN IF r.ok
          THEN /\ file_data' = r.data
               /\ pc' = "printData"
               /\ UNCHANGED <<result, readErr>>
          ELSE /\ result' = "Err"
               /\ readErr' = r.err
               /\ pc' = "ret"
               /\ UNCHANGED file_data
    /\ UNCHANGED <<args, fs, fs0, file, absolute_path, canonErr, stdout, stderr,
                   exitCode, envSteps>>

(* goblin_runner, lines 8-10 *)
PrintData ==
    /\ pc = "printData"
    /\ stdout' = Append(stdout, DebugVec(file_data))
    /\ result' = "Ok"
    /\ pc' = "ret"
    /\ UNCHANGED <<args, fs, fs0, fsAtRead, file, absolute_path, canonErr,
                   file_data, readErr, stderr, exitCode, fsOps, envSteps>>

(* main, lines 30-31: the Result is dropped and main returns normally *)
MainReturn ==
    /\ pc = "ret"
    /\ exitCode' = 0
    /\ pc' = "done"
    /\ UNCHANGED <<args, fs, fs0, fsAtRead, file, absolute_path, canonErr,
                   file_data, result, readErr, stdout, stderr, fsOps, envSteps>>

(* The environment deletes or replaces an entry between canonicalize and   *)
(* fs::read.  Changes before canonicalize are covered by Init.             *)
EnvChange ==
    /\ pc \in {"printAbs", "read"}
    /\ envSteps < MaxEnvSteps
    /\ \E n \in {F, K}, e \in EnvEntries :
         /\ fs[n] # e
         /\ fs' = [fs EXCEPT ![n] = e]
    /\ envSteps' = envSteps + 1
    /\ UNCHANGED <<args, fs0, fsAtRead, pc, file, absolute_path, canonErr,
                   file_data, result, readErr, stdout, stderr, exitCode, fsOps>>

Next ==
    \/ CheckArgs
    \/ IndexArg
    \/ PrintPath
    \/ CanonicalizeStep
    \/ PrintAbs
    \/ GoblinRead
    \/ PrintData
    \/ MainReturn
    \/ EnvChange

Spec == Init /\ [][Next]_vars

----------------------------------------------------------------------------
(* Vocabulary of the properties *)

HasUserArg == Len(args) > 1

FirstArg == args[2]

Terminated == pc \in {"done", "panicked"}

Printed(line) == \E i \in DOMAIN stdout : stdout[i] = line

LastLine == stdout[Len(stdout)]

(* The path a string denotes when no symlink is followed.                  *)
LexPath(a) ==
    IF a # <<>> /\ Head(a) = "/" THEN LexResolve(Root, Tail(a)).path
    ELSE LexResolve(Cwd, a).path

(* The string is empty, or the directory that should hold its last         *)
(* component exists and has no such entry (ENOENT).                        *)
NoEntry(f, a) ==
    \/ a = <<>>
    \/ /\ Kind(f, LexPath(a)) = "none"
       /\ Kind(f, Parent(LexPath(a))) = "dir"

(* The end of the chain of symlinks that starts at p.                      *)
RECURSIVE ChainEnd(_, _, _)
ChainEnd(f, p, k) ==
    IF Kind(f, p) = "link" /\ k > 0
    THEN LET t == Entry(f, p).target
         IN ChainEnd(f, IF t # <<>> /\ Head(t) = "/"
                        THEN LexResolve(Root, Tail(t)).path
                        ELSE LexResolve(Parent(p), t).path, k - 1)
    ELSE p

NamesRegularFile(f, a) ==
    LET r == Canonicalize(f, a) IN r.ok /\ Kind(f, r.path) = "file"

(* C1: when the first user argument names a regular file that the          *)
(* environment does not change during the run, the bytes printed by        *)
(* goblin_runner have the file's length and are exactly its contents, and  *)
(* a readable file is always printed.                                      *)
C1_ReadIsExact ==
    (HasUserArg /\ envSteps = 0 /\ NamesRegularFile(fs0, FirstArg)) =>
        LET e == Entry(fs0, Canonicalize(fs0, FirstArg).path)
        IN /\ result = "Ok" =>
                /\ Len(ParseDebugVec(LastLine)) = Len(e.data)
                /\ ParseDebugVec(LastLine) = e.data
           /\ (pc = "done" /\ e.readable) => result = "Ok"

C1_Witness ==
    /\ HasUserArg /\ envSteps = 0 /\ NamesRegularFile(fs0, FirstArg)
    /\ pc = "done" /\ result = "Ok"
    /\ Len(Entry(fs0, Canonicalize(fs0, FirstArg).path).data) >= 2

(* C2: with no argument beyond the program name, the run ends with a       *)
(* non-zero exit status, the missing-argument message has been printed,    *)
(* and neither canonicalize nor read was performed.                        *)
C2_MissingArgument ==
    ~HasUserArg =>
        /\ fsOps = <<>>
        /\ pc \notin {"printPath", "canon", "printAbs", "read", "printData", "ret", "done"}
        /\ Terminated => /\ exitCode # 0
                         /\ exitCode # NoExit
                         /\ Printed(NoArgsMsg)

C2_Witness == ~HasUserArg /\ Len(args) = 1 /\ pc = "panicked" /\ Printed(NoArgsMsg)

C4_ReadFailureReported ==
    pc = "done" =>
        /\ result = "Err" => (exitCode # 0 /\ stderr # <<>>)
        /\ exitCode = 0 => result = "Ok"

(* C5: when the first user argument resolves to a directory, the run exits *)
(* non-zero with a diagnostic and does not crash.                          *)
C5_DirectoryRejected ==
    (/\ HasUserArg /\ Terminated /\ envSteps = 0
     /\ Canonicalize(fs0, FirstArg).ok
     /\ Kind(fs0, Canonicalize(fs0, FirstArg).path) = "dir") =>
        /\ exitCode # 0
        /\ pc # "panicked"
        /\ stderr # <<>>

(* C6: no run terminates through a panic.                                  *)
C6_NoPanic == pc # "panicked"

(* C7 as stated: on a successful run the process exits 0 and the output is *)
(* the debug rendering of the canonical path followed by the debug         *)
(* rendering of the bytes read, and nothing else.                          *)
C7_OutputIsPathThenBytes ==
    (pc = "done" /\ result = "Ok") =>
        /\ exitCode = 0
        /\ stdout = << <<Quote>> \o absolute_path \o <<Quote>>, DebugVec(file_data) >>

(* C7 amended: on a successful run the process exits 0 and the output ends *)
(* with three lines, in this order: the debug rendering of the path as     *)
(* given, "Absolute path: " with the debug rendering of the canonical      *)
(* path, and the debug rendering of the bytes read.                        *)
C7_OutputOrder ==
    (pc = "done" /\ result = "Ok") =>
        /\ exitCode = 0
        /\ Len(stdout) >= 3
        /\ SubSeq(stdout, Len(stdout) - 2, Len(stdout)) =
             << <<Quote>> \o FirstArg \o <<Quote>>,
                <<"Absolute path: ", Quote>> \o absolute_path \o <<Quote>>,
                <<"[">> \o DebugElems(file_data) \o <<"]">> >>
        /\ fsOps = <<"canonicalize", "read">>

C7_Witness ==
    /\ pc = "done" /\ result = "Ok" /\ Len(file_data) >= 1
    /\ absolute_path # FirstArg

(* C8: when the first user argument is a symlink, or a chain of symlinks,  *)
(* ending at a regular file, the reported resolved path is the canonical   *)
(* path of that file and the bytes printed are that file's contents.       *)
C8_SymlinkResolved ==
    (/\ HasUserArg
     /\ Kind(fs0, LexPath(FirstArg)) = "link"
     /\ Kind(fs0, ChainEnd(fs0, LexPath(FirstArg), Cardinality(Nodes))) = "file") =>
        LET t == ChainEnd(fs0, LexPath(FirstArg), Cardinality(Nodes))
        IN /\ pc # "panicked"
           /\ pc \in {"printAbs", "read", "printData", "ret", "done"} =>
                absolute_path = t
           /\ pc \in {"read", "printData", "ret", "done"} =>
                Printed(<<"Absolute path: ", Quote>> \o t \o <<Quote>>)
           /\ (result = "Ok" /\ Kind(fsAtRead, t) = "file") =>
                ParseDebugVec(LastLine) = Entry(fsAtRead, t).data
           /\ (pc = "done" /\ envSteps = 0 /\ Entry(fs0, t).readable) =>
                result = "Ok"

C8_Witness ==
    /\ HasUserArg
    /\ FirstArg = <<"l">>
    /\ fs0[L] = Link(K)
    /\ fs0[K] = Link(<<".", "f">>)
    /\ Kind(fs0, F) = "file"
    /\ pc = "done" /\ result = "Ok" /\ absolute_path = F
    /\ Len(file_data) >= 1

(* C9: the run follows Start -> ArgsCollected -> PathResolved -> FileRead  *)
(* -> Reported; a step is entered only after the previous one succeeded,   *)
(* and a failed step ends the run in an error state, never in the normal   *)
(* completion.                                                             *)
C9_LinearChain ==
    /\ pc \in {"printPath", "canon", "printAbs", "read", "printData", "ret", "done"} =>
         HasUserArg
    /\ (\E i \in DOMAIN fsOps : fsOps[i] = "read") =>
         (canonErr = "" /\ fsOps = <<"canonicalize", "read">>)
    /\ result = "Ok" => readErr = ""
    /\ (~HasUserArg \/ canonErr # "" \/ readErr # "") =>
         /\ result # "Ok"
         /\ pc # "done"
         /\ exitCode \in {NoExit, PanicExit}

(* C10: the no-arguments message is printed exactly when the argument list *)
(* has no element beyond the program name.                                 *)
C10_MessageIffNoArgs ==
    pc # "check" => (Printed(NoArgsMsg) <=> Len(args) <= 1)

====
